---- MODULE Spec2Model ----
(***************************************************************************)
(* Appointment capacity booking of the DATAIKOS backend.                   *)
(*                                                                         *)
(* The store is the remote Supabase database: every DatabaseManager method *)
(* is one or two requests to it, and each request is atomic at the store.  *)
(* A caller is a server process handling one request at a time: inside one *)
(* event loop create_appointment and cancel_appointment never suspend, but *)
(* the processes that share the store take no lock and open no             *)
(* transaction, so their store requests interleave freely.  A store        *)
(* request that fails takes no effect.                                     *)
(***************************************************************************)
EXTENDS Integers, FiniteSets, Sequences, TLC

\* ---------------------------------------------------------------- bounds
NumCallers == 2
MaxCalls == 3
MaxFaults == 2
MaxCapacity == 1

Callers == 1..NumCallers
SlotId == "s1"
MissingSlot == "missing"
NoAppointment == 0

VARIABLES
    time_slots,     \* table time_slots: slot id -> row
    appointments,   \* table appointments: appointment id -> row
    next_id,        \* next id the store gives to an inserted appointment
    pc,             \* where each caller is in its current call
    local,          \* local variables and return value of each caller's call
    calls,          \* number of calls started so far
    faults,         \* number of store requests that failed so far
    lifespan,       \* main.lifespan: "init", "serving", "stopping", "down"
    task,           \* the task running AppointmentScheduler.start()
    is_running,     \* AppointmentScheduler.is_running
    now,            \* the clock, in half hours
    wake_at,        \* when the task's asyncio.sleep ends
    ticks_running,  \* executions of check_reminders in progress
    tick,           \* locals of the check_reminders execution
    reminded,       \* last tick: email result per appointment reminded
    sent,           \* reminder emails sent with success, per appointment
    gen             \* the calls of generate_slots_for_date_range

schedVars == <<lifespan, task, is_running, now, wake_at, ticks_running,
               tick, reminded, sent>>

genVars == <<gen>>

vars == <<time_slots, appointments, next_id, pc, local, calls, faults,
          schedVars, genVars>>

\* ---------------------------------------------------------------- helpers
Max(a, b) == IF a >= b THEN a ELSE b

NoLocal ==
    [op |-> "none", time_slot_id |-> "none", appointment |-> NoAppointment,
     appt_status |-> "none", slot_cb |-> -1,
     del_ok |-> "none", email |-> "none", exit |-> "none", result |-> "pending"]

Free(p) == pc[p] \in {"idle", "done"}

\* A store request fails (exception or empty answer) at most MaxFaults times.
CanFail == faults < MaxFaults

Goto(p, label) == pc' = [pc EXCEPT ![p] = label]

Return(p, loc, value, line) ==
    /\ pc' = [pc EXCEPT ![p] = "done"]
    /\ local' = [local EXCEPT ![p] = [loc EXCEPT !.result = value, !.exit = line]]

ConfirmedOn(sid) ==
    {a \in DOMAIN appointments :
        /\ appointments[a].time_slot_id = sid
        /\ appointments[a].status = "confirmed"}

\* new_count of increment_time_slot_bookings
IncrementCount(cb) == cb + 1

DecrementCount_NoFloor(cb) == cb - 1

\* new_count of decrement_time_slot_bookings
DecrementCount(cb) == Max(0, cb - 1)

\* AppointmentScheduler.__init__ and the process before lifespan runs
NoTick == [now |-> -1, appointments |-> << >>]

\* no call of generate_slots_for_date_range
NoGeneration == gen = << >>

SchedulerNotStarted ==
    /\ lifespan = "init"
    /\ task = "none"
    /\ is_running = FALSE
    /\ now = 0
    /\ wake_at = 0
    /\ ticks_running = 0
    /\ tick = NoTick
    /\ reminded = << >>
    /\ sent = << >>

\* ---------------------------------------------------------------- Init
Init ==
    /\ \E c \in 0..MaxCapacity :
          time_slots = [s \in {SlotId} |-> [max_capacity |-> c, current_bookings |-> 0]]
    /\ appointments = << >>
    /\ next_id = 1
    /\ pc = [p \in Callers |-> "idle"]
    /\ local = [p \in Callers |-> NoLocal]
    /\ calls = 0
    /\ faults = 0
    /\ SchedulerNotStarted
    /\ NoGeneration

\* ids a caller can pass: the slot or a slot that does not exist; an
\* appointment in the store or one that is not
BookTargets == {SlotId, MissingSlot}
CancelTargets == {NoAppointment} \cup DOMAIN appointments

\* ---------------------------------------------------------------- book
BookGetSlot_CountsBeforeCheck(p) ==
    /\ UNCHANGED <<schedVars, genVars>>
    /\ Free(p)
    /\ calls < MaxCalls
    /\ calls' = calls + 1
    /\ UNCHANGED <<appointments, next_id>>
    /\ \E sid \in BookTargets :
       LET loc == [NoLocal EXCEPT !.op = "book", !.time_slot_id = sid] IN
       \/ /\ sid \notin DOMAIN time_slots
          /\ UNCHANGED <<faults, time_slots>>
          /\ Return(p, loc, "None", "not_found")
       \/ /\ sid \in DOMAIN time_slots
          /\ UNCHANGED faults
          /\ IF time_slots[sid].current_bookings >= time_slots[sid].max_capacity
             THEN /\ time_slots' = [time_slots EXCEPT ![sid].current_bookings = @ + 1]
                  /\ Return(p, loc, "None", "full")
             ELSE /\ Goto(p, "b_create")
                  /\ local' = [local EXCEPT ![p] = loc]
                  /\ UNCHANGED time_slots

\* CRUDHandler.create_appointment, up to the capacity check: the caller
\* starts a call, fetches the slot and decides on the fetched row.
BookGetSlot(p) ==
    /\ UNCHANGED <<schedVars, genVars>>
    /\ Free(p)
    /\ calls < MaxCalls
    /\ calls' = calls + 1
    /\ UNCHANGED <<time_slots, appointments, next_id>>
    /\ \E sid \in BookTargets :
       LET loc == [NoLocal EXCEPT !.op = "book", !.time_slot_id = sid] IN
       \/ /\ CanFail                      \* get_time_slot caught an exception
          /\ faults' = faults + 1
          /\ Return(p, loc, "None", "not_found")
       \/ /\ sid \notin DOMAIN time_slots
          /\ UNCHANGED faults
          /\ Return(p, loc, "None", "not_found")
       \/ /\ sid \in DOMAIN time_slots
          /\ UNCHANGED faults
          /\ LET max_capacity == time_slots[sid].max_capacity
                 current_bookings == time_slots[sid].current_bookings
             IN IF current_bookings >= max_capacity
                THEN Return(p, loc, "None", "full")
                ELSE /\ Goto(p, "b_create")
                     /\ local' = [local EXCEPT ![p] = loc]

\* db_manager.create_appointment(appointment_dict), status "confirmed"
BookCreate(p) ==
    /\ UNCHANGED <<schedVars, genVars>>
    /\ pc[p] = "b_create"
    /\ UNCHANGED <<time_slots, calls>>
    /\ \/ /\ CanFail
          /\ faults' = faults + 1
          /\ UNCHANGED <<appointments, next_id>>
          /\ Return(p, local[p], "None", "create_failed")
       \/ /\ UNCHANGED faults
          /\ appointments' =
                (next_id :> [time_slot_id |-> local[p].time_slot_id,
                             status |-> "confirmed"]) @@ appointments
          /\ next_id' = next_id + 1
          /\ local' = [local EXCEPT ![p].appointment = next_id]
          /\ Goto(p, "incr_read")

\* increment_time_slot_bookings: slot = self.get_time_slot(slot_id)
IncrRead(p) ==
    /\ UNCHANGED <<schedVars, genVars>>
    /\ pc[p] = "incr_read"
    /\ UNCHANGED <<time_slots, appointments, next_id, calls>>
    /\ \/ /\ CanFail
          /\ faults' = faults + 1
          /\ UNCHANGED local
          /\ Goto(p, "b_compensate")
       \/ /\ UNCHANGED faults
          /\ local' = [local EXCEPT ![p].slot_cb =
                          time_slots[local[p].time_slot_id].current_bookings]
          /\ Goto(p, "incr_write")

\* increment_time_slot_bookings: update({'current_bookings': new_count})
IncrWrite(p) ==
    /\ UNCHANGED <<schedVars, genVars>>
    /\ pc[p] = "incr_write"
    /\ UNCHANGED <<appointments, next_id, calls, local>>
    /\ \/ /\ CanFail
          /\ faults' = faults + 1
          /\ UNCHANGED time_slots
          /\ Goto(p, "b_compensate")
       \/ /\ UNCHANGED faults
          /\ time_slots' = [time_slots EXCEPT
                ![local[p].time_slot_id].current_bookings =
                    IncrementCount(local[p].slot_cb)]
          /\ Goto(p, "b_notify")

BookCompensate_NoDelete(p) ==
    /\ UNCHANGED <<schedVars, genVars>>
    /\ pc[p] = "b_compensate"
    /\ UNCHANGED <<time_slots, appointments, next_id, calls, faults>>
    /\ Return(p, [local[p] EXCEPT !.del_ok = "true"], "None", "rolled_back")

\* the increment returned False: delete_appointment, then return None
BookCompensate(p) ==
    /\ UNCHANGED <<schedVars, genVars>>
    /\ pc[p] = "b_compensate"
    /\ UNCHANGED <<time_slots, next_id, calls>>
    /\ \/ /\ CanFail
          /\ faults' = faults + 1
          /\ UNCHANGED appointments
          /\ Return(p, [local[p] EXCEPT !.del_ok = "false"], "None", "rolled_back")
       \/ /\ UNCHANGED faults
          /\ appointments' = [a \in DOMAIN appointments \ {local[p].appointment}
                                 |-> appointments[a]]
          /\ Return(p, [local[p] EXCEPT !.del_ok = "true"], "None", "rolled_back")

EmailOutcomes == {"true", "false", "raise"}

BookNotify_Propagates(p) ==
    /\ UNCHANGED <<schedVars, genVars>>
    /\ pc[p] = "b_notify"
    /\ UNCHANGED <<time_slots, appointments, next_id, calls, faults>>
    /\ \E m \in EmailOutcomes :
          IF m = "raise"
          THEN Return(p, [local[p] EXCEPT !.email = m], "None", "exception")
          ELSE Return(p, [local[p] EXCEPT !.email = m], "appointment", "booked")

\* the confirmation email inside try/except, then return appointment
BookNotify(p) ==
    /\ UNCHANGED <<schedVars, genVars>>
    /\ pc[p] = "b_notify"
    /\ UNCHANGED <<time_slots, appointments, next_id, calls, faults>>
    /\ \E m \in EmailOutcomes :
          Return(p, [local[p] EXCEPT !.email = m], "appointment", "booked")

\* ---------------------------------------------------------------- cancel
\* CRUDHandler.cancel_appointment: appointment = get_appointment(id)
CancelGet(p) ==
    /\ UNCHANGED <<schedVars, genVars>>
    /\ Free(p)
    /\ calls < MaxCalls
    /\ calls' = calls + 1
    /\ UNCHANGED <<time_slots, appointments, next_id>>
    /\ \E aid \in CancelTargets :
       LET loc == [NoLocal EXCEPT !.op = "cancel", !.appointment = aid] IN
       \/ /\ CanFail
          /\ faults' = faults + 1
          /\ Return(p, loc, "False", "not_found")
       \/ /\ aid \notin DOMAIN appointments
          /\ UNCHANGED faults
          /\ Return(p, loc, "False", "not_found")
       \/ /\ aid \in DOMAIN appointments
          /\ UNCHANGED faults
          /\ local' = [local EXCEPT ![p] =
                [loc EXCEPT !.time_slot_id = appointments[aid].time_slot_id,
                            !.appt_status = appointments[aid].status]]
          /\ Goto(p, "c_update")

\* update_appointment(appointment_id, {"status": "cancelled"})
CancelUpdate(p) ==
    /\ UNCHANGED <<schedVars, genVars>>
    /\ pc[p] = "c_update"
    /\ UNCHANGED <<time_slots, next_id, calls>>
    /\ \/ /\ CanFail
          /\ faults' = faults + 1
          /\ UNCHANGED appointments
          /\ Return(p, local[p], "False", "update_failed")
       \/ /\ local[p].appointment \notin DOMAIN appointments   \* no row matched
          /\ UNCHANGED <<faults, appointments>>
          /\ Return(p, local[p], "False", "update_failed")
       \/ /\ local[p].appointment \in DOMAIN appointments
          /\ UNCHANGED <<faults, local>>
          /\ appointments' = [appointments EXCEPT
                                 ![local[p].appointment].status = "cancelled"]
          /\ Goto(p, "decr_read")

\* decrement_time_slot_bookings: slot = self.get_time_slot(slot_id)
DecrRead(p) ==
    /\ UNCHANGED <<schedVars, genVars>>
    /\ pc[p] = "decr_read"
    /\ UNCHANGED <<time_slots, appointments, next_id, calls>>
    /\ \/ /\ CanFail
          /\ faults' = faults + 1
          /\ Return(p, local[p], "False", "decrement_failed")
       \/ /\ UNCHANGED faults
          /\ local' = [local EXCEPT ![p].slot_cb =
                          time_slots[local[p].time_slot_id].current_bookings]
          /\ Goto(p, "decr_write")

\* decrement_time_slot_bookings: update({'current_bookings': new_count})
DecrWrite(p) ==
    /\ UNCHANGED <<schedVars, genVars>>
    /\ pc[p] = "decr_write"
    /\ UNCHANGED <<appointments, next_id, calls>>
    /\ \/ /\ CanFail
          /\ faults' = faults + 1
          /\ UNCHANGED time_slots
          /\ Return(p, local[p], "False", "decrement_failed")
       \/ /\ UNCHANGED faults
          /\ time_slots' = [time_slots EXCEPT
                ![local[p].time_slot_id].current_bookings =
                    DecrementCount(local[p].slot_cb)]
          /\ Return(p, local[p], "True", "cancelled")

\* ---------------------------------------------------------------- Next
Next ==
    \E p \in Callers :
        \/ BookGetSlot(p)
        \/ BookCreate(p)
        \/ IncrRead(p)
        \/ IncrWrite(p)
        \/ BookCompensate(p)
        \/ BookNotify(p)
        \/ CancelGet(p)
        \/ CancelUpdate(p)
        \/ DecrRead(p)
        \/ DecrWrite(p)

Spec == Init /\ [][Next]_vars

TypeOK ==
    /\ DOMAIN time_slots = {SlotId}
    /\ DOMAIN appointments \subseteq 1..(next_id - 1)
    /\ calls \in 0..MaxCalls
    /\ faults \in 0..MaxFaults

\* ------------------------------------------------- sequential executions
\* One caller, one call after the other, no store failure.  The run starts
\* from a store that k earlier bookings have filled: k confirmed
\* appointments and current_bookings = k, for every k up to the capacity.
MaxAppointmentsPerSlot == 5

SeqCaller == 1

SeqInit ==
    /\ \E c \in 0..MaxAppointmentsPerSlot : \E k \in 0..c :
          /\ time_slots = [s \in {SlotId} |->
                              [max_capacity |-> c, current_bookings |-> k]]
          /\ appointments = [a \in 1..k |->
                              [time_slot_id |-> SlotId, status |-> "confirmed"]]
          /\ next_id = k + 1
    /\ pc = [p \in Callers |-> "idle"]
    /\ local = [p \in Callers |-> NoLocal]
    /\ calls = 0
    /\ faults = 0
    /\ SchedulerNotStarted
    /\ NoGeneration

SeqBookGetSlot == BookGetSlot(SeqCaller) /\ UNCHANGED faults
SeqBookCreate == BookCreate(SeqCaller) /\ UNCHANGED faults
SeqIncrRead == IncrRead(SeqCaller) /\ UNCHANGED faults
SeqIncrWrite == IncrWrite(SeqCaller) /\ UNCHANGED faults
SeqBookNotify == BookNotify(SeqCaller) /\ UNCHANGED faults
SeqCancelGet == CancelGet(SeqCaller) /\ UNCHANGED faults
SeqCancelUpdate == CancelUpdate(SeqCaller) /\ UNCHANGED faults
SeqDecrRead == DecrRead(SeqCaller) /\ UNCHANGED faults
SeqDecrWrite == DecrWrite(SeqCaller) /\ UNCHANGED faults

SeqNext ==
    \/ SeqBookGetSlot
    \/ SeqBookCreate
    \/ SeqIncrRead
    \/ SeqIncrWrite
    \/ SeqBookNotify
    \/ SeqCancelGet
    \/ SeqCancelUpdate
    \/ SeqDecrRead
    \/ SeqDecrWrite

SeqSpec == SeqInit /\ [][SeqNext]_vars

\* Concurrent calls on a slot that k earlier bookings have filled
RaceSpec == SeqInit /\ [][Next]_vars

\* ------------------------------------------------------ reminder scheduler
\* The scheduler task and the routes of one server process share one event
\* loop; the store is the one of the booking part.  In this part a time
\* slot row keeps the instant it starts at, an appointment row its slot,
\* status and reminder_sent column.  The clock counts half hours.

MaxNow == 6
NumScheduled == 2

APPOINTMENT_REMINDER_HOURS == 24
SCHEDULER_CHECK_INTERVAL == 60
WindowLowHours == 23
WindowHighHours == 25

Hours(h) == h * 2
Minutes(m) == m \div 30

\* Scenario C: one appointment 23.5 hours away, one 26 hours away
AppointmentInstants == {Hours(23) + 1, Hours(26)}
Statuses == {"confirmed", "cancelled"}

SchedInit ==
    /\ \E at \in [1..NumScheduled -> AppointmentInstants] :
          time_slots = [s \in 1..NumScheduled |->
                           [starts_at |-> at[s], max_capacity |-> 1,
                            current_bookings |-> 1]]
    /\ appointments = [a \in 1..NumScheduled |->
                          [time_slot_id |-> a, status |-> "confirmed",
                           reminder_sent |-> FALSE]]
    /\ next_id = NumScheduled + 1
    /\ pc = [p \in Callers |-> "idle"]
    /\ local = [p \in Callers |-> NoLocal]
    /\ calls = 0
    /\ faults = 0
    /\ SchedulerNotStarted
    /\ NoGeneration

bookVars == <<next_id, pc, local, calls, faults>>

\* _get_upcoming_appointments: "For now, return empty list"
GetUpcomingAppointments == << >>

\* _parse_appointment_time: returns None whatever the appointment
NoTime == -1
ParseAppointmentTime(appointment) == NoTime

\* timedelta(hours=23) < time_diff < timedelta(hours=25)
InWindow(time_diff) ==
    Hours(WindowLowHours) < time_diff /\ time_diff < Hours(WindowHighHours)

\* the appointments of the fetched list check_reminders calls
\* _send_reminder for
ToRemind(t) ==
    {a \in DOMAIN t.appointments :
        /\ ~t.appointments[a].reminder_sent
        /\ ParseAppointmentTime(t.appointments[a]) # NoTime
        /\ InWindow(ParseAppointmentTime(t.appointments[a]) - t.now)}

SentCount(a) == IF a \in DOMAIN sent THEN sent[a] ELSE 0

\* lifespan startup: the task is created only if SCHEDULER_ENABLED
Startup ==
    /\ lifespan = "init"
    /\ lifespan' = "serving"
    /\ \E enabled \in BOOLEAN : task' = IF enabled THEN "created" ELSE "none"
    /\ UNCHANGED <<is_running, now, wake_at, ticks_running, tick, reminded, sent>>
    /\ UNCHANGED <<time_slots, appointments, bookVars, genVars>>

\* start(): is_running = True, then the loop
StartLoop ==
    /\ task = "created"
    /\ is_running' = TRUE
    /\ task' = "loop"
    /\ UNCHANGED <<lifespan, now, wake_at, ticks_running, tick, reminded, sent>>
    /\ UNCHANGED <<time_slots, appointments, bookVars, genVars>>

\* while self.is_running: await self.check_reminders(), up to the fetch of
\* the list (now, target_time, _get_upcoming_appointments)
TickBegin_Detached ==
    /\ task = "loop"
    /\ IF is_running
       THEN /\ task' = "sleep"
            /\ wake_at' = now + Minutes(SCHEDULER_CHECK_INTERVAL)
            /\ ticks_running' = ticks_running + 1
            /\ tick' = [now |-> now, appointments |-> GetUpcomingAppointments]
       ELSE /\ task' = "finished"
            /\ UNCHANGED <<wake_at, ticks_running, tick>>
    /\ UNCHANGED <<lifespan, is_running, now, reminded, sent>>
    /\ UNCHANGED <<time_slots, appointments, bookVars, genVars>>

TickBegin ==
    /\ task = "loop"
    /\ IF is_running
       THEN /\ task' = "tick"
            /\ ticks_running' = ticks_running + 1
            /\ tick' = [now |-> now, appointments |-> GetUpcomingAppointments]
       ELSE /\ task' = "finished"
            /\ UNCHANGED <<ticks_running, tick>>
    /\ UNCHANGED <<lifespan, is_running, now, wake_at, reminded, sent>>
    /\ UNCHANGED <<time_slots, appointments, bookVars, genVars>>

\* the rest of check_reminders: _send_reminder for each selected
\* appointment, a successful email followed by the reminder_sent update
\* (a store request, which can fail); then start() goes to sleep
TickEnd ==
    /\ task = "tick"
    /\ \E outcome \in [ToRemind(tick) -> EmailOutcomes] :
       \E written \in SUBSET {a \in ToRemind(tick) : outcome[a] = "true"} :
          /\ reminded' = outcome
          /\ sent' = [a \in DOMAIN sent \cup {b \in ToRemind(tick) : outcome[b] = "true"} |->
                         SentCount(a) + IF a \in ToRemind(tick) /\ outcome[a] = "true"
                                        THEN 1 ELSE 0]
          /\ appointments' = [a \in DOMAIN appointments |->
                                 IF a \in written
                                 THEN [appointments[a] EXCEPT !.reminder_sent = TRUE]
                                 ELSE appointments[a]]
    /\ ticks_running' = ticks_running - 1
    /\ task' = "sleep"
    /\ wake_at' = now + Minutes(SCHEDULER_CHECK_INTERVAL)
    /\ UNCHANGED <<lifespan, is_running, now, tick>>
    /\ UNCHANGED <<time_slots, bookVars, genVars>>

\* asyncio.sleep returns once the interval has passed
Wake ==
    /\ task = "sleep"
    /\ now >= wake_at
    /\ task' = "loop"
    /\ UNCHANGED <<lifespan, is_running, now, wake_at, ticks_running, tick, reminded, sent>>
    /\ UNCHANGED <<time_slots, appointments, bookVars, genVars>>

\* time passes, also while check_reminders runs
ClockAdvance ==
    /\ now < MaxNow
    /\ now' = now + 1
    /\ UNCHANGED <<lifespan, task, is_running, wake_at, ticks_running, tick, reminded, sent>>
    /\ UNCHANGED <<time_slots, appointments, bookVars, genVars>>

\* lifespan shutdown: scheduler.stop(); scheduler_task.cancel(); it runs
\* on the event loop, hence only while the task is suspended
Shutdown_NoCancel ==
    /\ lifespan = "serving"
    /\ task \in {"none", "created", "sleep"}
    /\ IF task = "none"
       THEN /\ lifespan' = "down"
            /\ UNCHANGED <<task, is_running>>
       ELSE /\ lifespan' = "stopping"
            /\ is_running' = FALSE
            /\ UNCHANGED task
    /\ UNCHANGED <<now, wake_at, ticks_running, tick, reminded, sent>>
    /\ UNCHANGED <<time_slots, appointments, bookVars, genVars>>

Shutdown ==
    /\ lifespan = "serving"
    /\ task \in {"none", "created", "sleep"}
    /\ IF task = "none"
       THEN /\ lifespan' = "down"
            /\ UNCHANGED <<task, is_running>>
       ELSE /\ lifespan' = "stopping"
            /\ is_running' = FALSE
            /\ task' = "cancelled"
    /\ UNCHANGED <<now, wake_at, ticks_running, tick, reminded, sent>>
    /\ UNCHANGED <<time_slots, appointments, bookVars, genVars>>

\* CancelledError is raised in the task where it is suspended
TaskCancelled ==
    /\ task = "cancelled"
    /\ task' = "finished"
    /\ UNCHANGED <<lifespan, is_running, now, wake_at, ticks_running, tick, reminded, sent>>
    /\ UNCHANGED <<time_slots, appointments, bookVars, genVars>>

\* await scheduler_task returns in lifespan
ShutdownDone ==
    /\ lifespan = "stopping"
    /\ task = "finished"
    /\ lifespan' = "down"
    /\ UNCHANGED <<task, is_running, now, wake_at, ticks_running, tick, reminded, sent>>
    /\ UNCHANGED <<time_slots, appointments, bookVars, genVars>>

\* PUT /appointments/{id}: the fields set in the AppointmentUpdate body are
\* written to the row
UpdateAppointment ==
    /\ lifespan = "serving"
    /\ task # "tick"
    /\ \E aid \in DOMAIN appointments :
       \E set_status \in BOOLEAN, new_status \in Statuses,
          set_reminder \in BOOLEAN, new_reminder \in BOOLEAN :
          appointments' = [appointments EXCEPT
              ![aid] = [time_slot_id |-> @.time_slot_id,
                        status |-> IF set_status THEN new_status ELSE @.status,
                        reminder_sent |-> IF set_reminder THEN new_reminder
                                          ELSE @.reminder_sent]]
    /\ UNCHANGED <<time_slots, bookVars, schedVars, genVars>>

SchedNext ==
    \/ Startup
    \/ StartLoop
    \/ TickBegin
    \/ TickEnd
    \/ Wake
    \/ ClockAdvance
    \/ Shutdown
    \/ TaskCancelled
    \/ ShutdownDone
    \/ UpdateAppointment

SchedSpec == SchedInit /\ [][SchedNext]_vars

\* ------------------------------------------- _send_reminder, called alone
\* check_reminders never reaches _send_reminder (its list is empty), so the
\* method is applied here to the appointments of the store directly; task
\* is the position of its caller, reminded the email result of the call.
MaxSends == 3

SendReminder_MarksAlways ==
    /\ calls < MaxSends
    /\ calls' = calls + 1
    /\ \E a \in DOMAIN appointments, email \in EmailOutcomes :
          /\ reminded' = (a :> email)
          /\ sent' = IF email = "true"
                     THEN (a :> SentCount(a) + 1) @@ sent
                     ELSE sent
          /\ appointments' = [appointments EXCEPT ![a].reminder_sent = TRUE]
    /\ task' = "returned"
    /\ UNCHANGED <<time_slots, next_id, pc, local, faults, genVars>>
    /\ UNCHANGED <<lifespan, is_running, now, wake_at, ticks_running, tick>>

\* send_appointment_reminder, then on success the reminder_sent update (a
\* store request that can fail); every exception ends in the except branch
SendReminder ==
    /\ calls < MaxSends
    /\ calls' = calls + 1
    /\ \E a \in DOMAIN appointments, email \in EmailOutcomes, update_ok \in BOOLEAN :
          /\ reminded' = (a :> email)
          /\ sent' = IF email = "true"
                     THEN (a :> SentCount(a) + 1) @@ sent
                     ELSE sent
          /\ appointments' = IF email = "true" /\ update_ok
                             THEN [appointments EXCEPT ![a].reminder_sent = TRUE]
                             ELSE appointments
    /\ task' = "returned"
    /\ UNCHANGED <<time_slots, next_id, pc, local, faults, genVars>>
    /\ UNCHANGED <<lifespan, is_running, now, wake_at, ticks_running, tick>>

SendNext == SendReminder

SendSpec == SchedInit /\ [][SendNext]_vars

\* ------------------------------------------------ start() and stop() calls
\* The scheduler object with start() and stop() called in any order.  Each
\* call of start() is a coroutine of its own, a loop; in this part task,
\* wake_at and tick hold one entry per loop, is_running is the one attribute
\* of the object, calls counts the calls of start() and stop(), and tick[l]
\* is the latest check_reminders run of loop l since start() was last called.
\* SCHEDULER_ENABLED is set (start() returns at once otherwise).  start()
\* and stop() run on the event loop, hence while every loop is suspended.
MaxApiCalls == 3
Loops == {"l1", "l2"}

Suspended == \A l \in Loops : task[l] \in {"none", "sleep", "finished"}

ApiInit ==
    /\ time_slots = << >>
    /\ appointments = << >>
    /\ next_id = 1
    /\ pc = [p \in Callers |-> "idle"]
    /\ local = [p \in Callers |-> NoLocal]
    /\ calls = 0
    /\ faults = 0
    /\ NoGeneration
    /\ lifespan = "serving"
    /\ task = [l \in Loops |-> "none"]
    /\ is_running = FALSE
    /\ now = 0
    /\ wake_at = [l \in Loops |-> 0]
    /\ ticks_running = 0
    /\ tick = [l \in Loops |-> NoTick]
    /\ reminded = << >>
    /\ sent = << >>

apiFrame == <<time_slots, appointments, next_id, pc, local, faults, genVars,
              lifespan, reminded, sent>>

\* start(): self.is_running = True, then the first test of the while
start(l) ==
    /\ Suspended
    /\ task[l] = "none"
    /\ calls < MaxApiCalls
    /\ calls' = calls + 1
    /\ is_running' = TRUE
    /\ task' = [task EXCEPT ![l] = "loop"]
    /\ tick' = [l2 \in Loops |-> NoTick]
    /\ UNCHANGED <<now, wake_at, ticks_running, apiFrame>>

\* stop(): self.is_running = False
stop ==
    /\ Suspended
    /\ calls < MaxApiCalls
    /\ calls' = calls + 1
    /\ is_running' = FALSE
    /\ UNCHANGED <<task, now, wake_at, ticks_running, tick, apiFrame>>

\* while self.is_running: await self.check_reminders()
LoopTickBegin(l) ==
    /\ task[l] = "loop"
    /\ IF is_running
       THEN /\ task' = [task EXCEPT ![l] = "tick"]
            /\ ticks_running' = ticks_running + 1
            /\ tick' = [tick EXCEPT ![l] =
                           [now |-> now, appointments |-> GetUpcomingAppointments]]
       ELSE /\ task' = [task EXCEPT ![l] = "finished"]
            /\ UNCHANGED <<ticks_running, tick>>
    /\ UNCHANGED <<is_running, now, wake_at, calls, apiFrame>>

\* check_reminders returns (its list is empty); asyncio.sleep begins
LoopTickEnd(l) ==
    /\ task[l] = "tick"
    /\ task' = [task EXCEPT ![l] = "sleep"]
    /\ ticks_running' = ticks_running - 1
    /\ wake_at' = [wake_at EXCEPT ![l] = now + Minutes(SCHEDULER_CHECK_INTERVAL)]
    /\ UNCHANGED <<is_running, now, tick, calls, apiFrame>>

\* asyncio.sleep returns once the interval has passed
LoopWake(l) ==
    /\ task[l] = "sleep"
    /\ now >= wake_at[l]
    /\ task' = [task EXCEPT ![l] = "loop"]
    /\ UNCHANGED <<is_running, now, wake_at, ticks_running, tick, calls, apiFrame>>

ApiNext ==
    \/ \E l \in Loops : start(l)
    \/ stop
    \/ \E l \in Loops : LoopTickBegin(l)
    \/ \E l \in Loops : LoopTickEnd(l)
    \/ \E l \in Loops : LoopWake(l)
    \/ ClockAdvance

ApiSpec == ApiInit /\ [][ApiNext]_vars


\* --------------------------------------------------------- slot generation
\* generate_slots_for_date_range, one store request per step.  In this
\* part the store's time_slots table is the sequence of its rows, the id
\* of a row its index; dates are day numbers, times of day are minutes
\* since midnight and are written to the rows as <<hour, minute>>.

NumDates == 2
MaxGenCalls == 2
MaxGenFaults == 1
Dates == 1..NumDates
Durations == {60, 100, 240}
GenCallers == {"g1"}

WORKING_HOURS_START == <<9, 0>>
WORKING_HOURS_END == <<18, 0>>

\* datetime.combine(date_obj, time(hour, minute)), within the day
TimeOfDay(hm) == hm[1] * 60 + hm[2]
\* strftime('%H:%M')
FormatTime(t) == <<t \div 60, t % 60>>

NoGen == [pc |-> "idle", start_date |-> 0, end_date |-> 0,
          current_date |-> 0, service_duration |-> 0, current_time |-> 0,
          base |-> 0, daily_slots |-> {}, slots |-> {}, result |-> {}]

GenInit ==
    /\ time_slots = << >>
    /\ appointments = << >>
    /\ next_id = 1
    /\ pc = [p \in Callers |-> "idle"]
    /\ local = [p \in Callers |-> NoLocal]
    /\ calls = 0
    /\ faults = 0
    /\ SchedulerNotStarted
    /\ gen = [g \in GenCallers |-> NoGen]

\* ids of the rows of a date: get_time_slots_by_date
SlotsByDate(d) == {i \in DOMAIN time_slots : time_slots[i].date = d}

\* if slot_end <= end_time
SlotFits_Truncating(slot_end, end_time) == TRUE
SlotFits(slot_end, end_time) == slot_end <= end_time

\* the row generate_time_slots_for_date builds for one step
SlotData(d, current_time, slot_end) ==
    [date |-> d,
     start_time |-> FormatTime(current_time),
     end_time |-> FormatTime(slot_end),
     max_capacity |-> MaxAppointmentsPerSlot,
     current_bookings |-> 0]

\* generate_slots_for_date_range after a date returned daily: extend, next
\* date, and either the next call of generate_time_slots_for_date or return
AfterDate(s, daily) ==
    LET all == s.slots \cup daily
    IN  IF s.current_date + 1 <= s.end_date
        THEN [s EXCEPT !.pc = "check_existing", !.slots = all,
                       !.current_date = @ + 1, !.daily_slots = {}]
        ELSE [s EXCEPT !.pc = "done", !.slots = all, !.result = all,
                       !.current_date = @ + 1, !.daily_slots = {}]

genFrame == <<appointments, next_id, pc, local, schedVars>>

GenCanFail == faults < MaxGenFaults

\* generate_slots_for_date_range is called: slots = [], current_date =
\* start_date, the first test of the while
GenStartWith(g, durations) ==
    /\ gen[g].pc \in {"idle", "done"}
    /\ calls < MaxGenCalls
    /\ calls' = calls + 1
    /\ \E sd \in Dates, ed \in Dates, d \in durations :
          gen' = [gen EXCEPT ![g] =
                    [NoGen EXCEPT !.pc = IF sd <= ed THEN "check_existing" ELSE "done",
                                  !.start_date = sd, !.end_date = ed,
                                  !.current_date = sd, !.service_duration = d,
                                  !.base = Len(time_slots)]]
    /\ UNCHANGED <<time_slots, faults, genFrame>>

\* the call as the route makes it, service_duration within ge=15, le=240
GenStart(g) == GenStartWith(g, Durations)

\* generate_time_slots_for_date up to the loop: get_time_slots_by_date
\* gives [] when the request fails; rows found are returned as they are
CheckExisting(g) ==
    /\ gen[g].pc = "check_existing"
    /\ \E ok \in {TRUE} \cup (IF GenCanFail THEN {FALSE} ELSE {}) :
          LET existing_slots == IF ok THEN SlotsByDate(gen[g].current_date) ELSE {}
          IN  /\ faults' = IF ok THEN faults ELSE faults + 1
              /\ gen' = [gen EXCEPT ![g] =
                          IF existing_slots # {}
                          THEN AfterDate(gen[g], existing_slots)
                          ELSE [gen[g] EXCEPT !.pc = "slot_loop",
                                   !.current_time = TimeOfDay(WORKING_HOURS_START),
                                   !.daily_slots = {}]]
    /\ UNCHANGED <<time_slots, calls, genFrame>>

\* one iteration of while current_time < end_time: create_time_slot for a
\* step that fits; a failed insert gives None and is not appended
CreateSlot_AbortOnFailure(g) ==
    /\ gen[g].pc = "slot_loop"
    /\ gen[g].current_time < TimeOfDay(WORKING_HOURS_END)
    /\ LET s == gen[g]
           slot_end == s.current_time + s.service_duration
       IN  IF SlotFits(slot_end, TimeOfDay(WORKING_HOURS_END))
           THEN \E ok \in {TRUE} \cup (IF GenCanFail THEN {FALSE} ELSE {}) :
                   IF ok
                   THEN /\ time_slots' = Append(time_slots,
                                  SlotData(s.current_date, s.current_time, slot_end))
                        /\ gen' = [gen EXCEPT ![g].current_time = slot_end,
                                      ![g].daily_slots = @ \cup {Len(time_slots) + 1}]
                        /\ UNCHANGED faults
                   ELSE /\ faults' = faults + 1
                        /\ gen' = [gen EXCEPT ![g] = AfterDate(s, {})]
                        /\ UNCHANGED time_slots
           ELSE /\ gen' = [gen EXCEPT ![g].current_time = slot_end]
                /\ UNCHANGED <<time_slots, faults>>
    /\ UNCHANGED <<calls, genFrame>>

CreateSlot(g) ==
    /\ gen[g].pc = "slot_loop"
    /\ gen[g].current_time < TimeOfDay(WORKING_HOURS_END)
    /\ LET s == gen[g]
           slot_end == s.current_time + s.service_duration
       IN  IF SlotFits(slot_end, TimeOfDay(WORKING_HOURS_END))
           THEN \E ok \in {TRUE} \cup (IF GenCanFail THEN {FALSE} ELSE {}) :
                   IF ok
                   THEN /\ time_slots' = Append(time_slots,
                                  SlotData(s.current_date, s.current_time, slot_end))
                        /\ gen' = [gen EXCEPT ![g].current_time = slot_end,
                                      ![g].daily_slots = @ \cup {Len(time_slots) + 1}]
                        /\ UNCHANGED faults
                   ELSE /\ faults' = faults + 1
                        /\ gen' = [gen EXCEPT ![g].current_time = slot_end]
                        /\ UNCHANGED time_slots
           ELSE /\ gen' = [gen EXCEPT ![g].current_time = slot_end]
                /\ UNCHANGED <<time_slots, faults>>
    /\ UNCHANGED <<calls, genFrame>>

\* the while ends: return slots, back in generate_slots_for_date_range
DayDone(g) ==
    /\ gen[g].pc = "slot_loop"
    /\ ~(gen[g].current_time < TimeOfDay(WORKING_HOURS_END))
    /\ gen' = [gen EXCEPT ![g] = AfterDate(gen[g], gen[g].daily_slots)]
    /\ UNCHANGED <<time_slots, calls, faults, genFrame>>

GenNext ==
    \E g \in GenCallers :
        \/ GenStart(g)
        \/ CheckExisting(g)
        \/ CreateSlot(g)
        \/ DayDone(g)

GenSpec == GenInit /\ [][GenNext]_vars

\* Two generation calls at a time (two requests, or two server processes);
\* the store answers every request of these calls (no failure is left to occur)
ConcGenCallers == {"g1", "g2"}
ConcDurations == {100, 240}

ConcGenStart(g) == GenStartWith(g, ConcDurations)

ConcGenInit ==
    /\ time_slots = << >>
    /\ appointments = << >>
    /\ next_id = 1
    /\ pc = [p \in Callers |-> "idle"]
    /\ local = [p \in Callers |-> NoLocal]
    /\ calls = 0
    /\ faults = MaxGenFaults
    /\ SchedulerNotStarted
    /\ gen = [g \in ConcGenCallers |-> NoGen]

ConcGenNext ==
    \E g \in ConcGenCallers :
        \/ ConcGenStart(g)
        \/ CheckExisting(g)
        \/ CreateSlot(g)
        \/ DayDone(g)

ConcGenSpec == ConcGenInit /\ [][ConcGenNext]_vars

\* generate_slots_for_date_range called directly, with any integer as
\* service_duration (the bound ge=15 is the route's, not the function's).
\* The table is capped at MaxRows rows so a walk that never ends stays finite.
MaxRows == 6
AnyDurations == {0, 240}

AnyDurStart(g) == GenStartWith(g, AnyDurations)

AnyDurCreateSlot(g) ==
    /\ Len(time_slots) < MaxRows
    /\ CreateSlot(g)

AnyDurNext ==
    \E g \in GenCallers :
        \/ AnyDurStart(g)
        \/ CheckExisting(g)
        \/ AnyDurCreateSlot(g)
        \/ DayDone(g)

AnyDurSpec == GenInit /\ [][AnyDurNext]_vars


\* ================================================================ claims
Slot == time_slots[SlotId]
Finished(p, op) == pc[p] = "done" /\ local[p].op = op
AllFree == \A p \in Callers : Free(p)

\* C1: in every reachable state every slot has
\* 0 <= current_bookings <= max_capacity.
C1_CapacityInvariant ==
    \A s \in DOMAIN time_slots :
        /\ 0 <= time_slots[s].current_bookings
        /\ time_slots[s].current_bookings <= time_slots[s].max_capacity

\* C2: when every one of N > C callers has made exactly one book call on the
\* slot (no store failure, no cancel) and all have returned, exactly C of them
\* got an appointment, N - C were refused for capacity, and
\* current_bookings = C.
RaceOver ==
    /\ faults = 0
    /\ calls = NumCallers
    /\ \A p \in Callers : Finished(p, "book") /\ local[p].time_slot_id = SlotId
    /\ NumCallers > Slot.max_capacity

C2_RaceCorrectness ==
    RaceOver =>
        /\ Cardinality({p \in Callers : local[p].result = "appointment"})
              = Slot.max_capacity
        /\ Cardinality({p \in Callers : local[p].exit = "full"})
              = NumCallers - Slot.max_capacity
        /\ Slot.current_bookings = Slot.max_capacity

\* C3: the number of confirmed appointments of a slot never exceeds the
\* slot's max_capacity (stated where the claim asks least: no call is in
\* progress and no store request has failed).
C3_ConfirmedWithinCapacity ==
    (AllFree /\ faults = 0) =>
    \A s \in DOMAIN time_slots :
        Cardinality(ConfirmedOn(s)) <= time_slots[s].max_capacity

\* C4: when no call is in progress (and no store request has failed, so no
\* compensation failure exists), current_bookings of each slot equals the
\* number of its confirmed appointments.
C4_CounterMatchesConfirmed ==
    (AllFree /\ faults = 0) =>
        \A s \in DOMAIN time_slots :
            time_slots[s].current_bookings = Cardinality(ConfirmedOn(s))

\* C5: the write of the increment step, made while the stored
\* current_bookings equals max_capacity, fails and leaves the counter
\* unchanged; when it succeeds it raised the stored counter by exactly 1 from
\* a value below max_capacity.
C5_IncrementCapacityChecked ==
    [][\A p \in Callers :
          (pc[p] = "incr_write" /\ pc'[p] # "incr_write") =>
              /\ (Slot.current_bookings >= Slot.max_capacity =>
                    /\ pc'[p] = "b_compensate"
                    /\ time_slots' = time_slots)
              /\ (pc'[p] = "b_notify" =>
                    /\ Slot.current_bookings < Slot.max_capacity
                    /\ time_slots'[SlotId].current_bookings
                          = Slot.current_bookings + 1)]_vars

\* C6: a cancel call that found the appointment already cancelled returns
\* false (stated for runs without store failure).
C6_RepeatedCancelReturnsFalse ==
    \A p \in Callers :
        (faults = 0 /\ Finished(p, "cancel")
            /\ local[p].appt_status = "cancelled") =>
            local[p].result = "False"

\* C7: a decrement that read current_bookings = 0 writes 0, and
\* current_bookings is never negative.
C7_CancellationFloor ==
    /\ [](\A s \in DOMAIN time_slots : time_slots[s].current_bookings >= 0)
    /\ [][\A p \in Callers :
            (pc[p] = "decr_write" /\ pc'[p] # "decr_write"
                /\ local[p].slot_cb = 0 /\ local'[p].result = "True") =>
                time_slots'[local[p].time_slot_id].current_bookings = 0]_vars

C7_Witness ==
    \E p \in Callers :
        /\ Finished(p, "cancel")
        /\ local[p].exit = "cancelled"
        /\ local[p].slot_cb = 0
        /\ Slot.current_bookings = 0

\* C8: a book call whose increment failed and whose compensating delete
\* succeeded returns a failure and its appointment is no longer in the store;
\* no step of a book call changes a slot except the one that takes the call
\* to the confirmation email, which a rolled-back call never takes.
C8_Compensation ==
    /\ [](\A p \in Callers :
            (Finished(p, "book") /\ local[p].exit = "rolled_back"
                /\ local[p].del_ok = "true") =>
                /\ local[p].result = "None"
                /\ local[p].appointment \notin DOMAIN appointments)
    /\ [][\A p \in Callers :
            ((pc'[p] # pc[p] \/ local'[p] # local[p])
                /\ local'[p].op = "book" /\ pc'[p] # "b_notify") =>
                /\ time_slots' = time_slots
                /\ local'[p].exit # "rolled_back" \/ pc[p] = "b_compensate"]_vars

C8_Witness ==
    \E p \in Callers :
        /\ Finished(p, "book")
        /\ local[p].exit = "rolled_back"
        /\ local[p].del_ok = "true"
        /\ local[p].appointment # NoAppointment

\* C9: a book call never ends with the ordinary failure result while the
\* appointment it created is still in the store as confirmed.
C9_CompensationFailureSurfaced ==
    \A p \in Callers :
        (Finished(p, "book") /\ local[p].result = "None") =>
            ~ /\ local[p].appointment \in DOMAIN appointments
              /\ appointments[local[p].appointment].status = "confirmed"

\* C10: once creation and increment succeeded, the call returns the
\* appointment whatever the confirmation email does, and the email step
\* changes neither the slot counter nor the appointment.
C10_BookingIndependentOfNotification ==
    /\ [](\A p \in Callers :
            (Finished(p, "book") /\ local[p].email \in EmailOutcomes) =>
                /\ local[p].result = "appointment"
                /\ local[p].appointment \in DOMAIN appointments)
    /\ [][\A p \in Callers :
            (pc[p] = "b_notify" /\ pc'[p] # "b_notify") =>
                /\ time_slots' = time_slots
                /\ appointments' = appointments
                /\ local'[p].result = "appointment"]_vars

C10_Witness ==
    \E p \in Callers :
        /\ Finished(p, "book")
        /\ local[p].email = "raise"
        /\ local[p].result = "appointment"
        /\ Slot.current_bookings >= 1

\* C11: in a sequential execution without store failure, a book call on the
\* slot goes on to create the appointment exactly when current_bookings <
\* max_capacity at the call, its increment raises current_bookings by
\* exactly 1 and it returns the appointment; a book call on a full slot
\* returns a failure and changes nothing; the decrement of a cancel call that
\* found its appointment confirmed lowers current_bookings by exactly 1.
C11_SequentialBooking ==
    [][LET p == SeqCaller IN
       /\ (Free(p) /\ local'[p].op = "book" /\ calls' # calls
              /\ local'[p].time_slot_id = SlotId) =>
             IF Slot.current_bookings < Slot.max_capacity
             THEN pc'[p] = "b_create"
             ELSE /\ pc'[p] = "done" /\ local'[p].result = "None"
                  /\ UNCHANGED <<time_slots, appointments>>
       /\ (pc[p] = "incr_write" /\ pc'[p] # "incr_write") =>
             /\ pc'[p] = "b_notify"
             /\ time_slots'[SlotId].current_bookings = Slot.current_bookings + 1
       /\ (pc[p] = "b_notify" /\ pc'[p] # "b_notify") =>
             local'[p].result = "appointment"
       /\ (pc[p] = "decr_write" /\ pc'[p] # "decr_write"
              /\ local[p].appt_status = "confirmed") =>
             /\ local'[p].result = "True"
             /\ time_slots'[SlotId].current_bookings = Slot.current_bookings - 1
      ]_vars

\* C12: the result of a book call tells its caller which kind of failure
\* occurred: two finished book calls that failed for different reasons (slot
\* absent, slot full) returned different results.  Stated for runs without
\* store failure.
C12_FailureKindsDistinguishable ==
    \A p, q \in Callers :
        (/\ faults = 0
         /\ Finished(p, "book") /\ local[p].exit = "not_found"
         /\ Finished(q, "book") /\ local[q].exit = "full") =>
            local[p].result # local[q].result

\* ------------------------------------------------------ scheduler claims
\* the window of the reminder: lead time, one hour either side
Due(a, t) ==
    /\ appointments[a].status = "confirmed"
    /\ ~appointments[a].reminder_sent
    /\ LET time_diff == time_slots[appointments[a].time_slot_id].starts_at - t
       IN  /\ Hours(APPOINTMENT_REMINDER_HOURS - 1) <= time_diff
           /\ time_diff <= Hours(APPOINTMENT_REMINDER_HOURS + 1)

TickCompletes == task = "tick" /\ task' = "sleep"

\* C13: reminder exactly once.  A tick that completes while a confirmed,
\* not yet reminded appointment is inside the window leaves it with exactly
\* one successful reminder and reminder_sent true, unless the notifier was
\* called for it and failed; and no appointment ever has more than one
\* successful reminder.
C13_ReminderExactlyOnce ==
    [][/\ \A a \in DOMAIN appointments : SentCount(a)' <= 1
       /\ TickCompletes =>
             \A a \in DOMAIN appointments :
                 Due(a, tick.now) =>
                     \/ a \in DOMAIN reminded' /\ reminded'[a] # "true"
                     \/ SentCount(a)' = 1 /\ appointments'[a].reminder_sent]_vars

\* C14: reminder_sent is one way.  Every change of an appointment's
\* reminder_sent is from false to true, made by the scheduler's tick, for
\* an appointment whose reminder email it sent with success.
C14_ReminderSentOneWay ==
    [][\A a \in DOMAIN appointments :
          appointments'[a].reminder_sent # appointments[a].reminder_sent =>
              /\ appointments'[a].reminder_sent
              /\ TickCompletes
              /\ a \in DOMAIN reminded'
              /\ reminded'[a] = "true"]_vars

\* C15: window selection.  The appointments the notifier is called for in
\* a tick are exactly the confirmed, not yet reminded ones whose slot
\* starts between lead - 1h and lead + 1h after the tick's now.
C15_WindowSelection ==
    [][TickCompletes =>
          DOMAIN reminded' = {a \in DOMAIN appointments : Due(a, tick.now)}]_vars

\* C19: ticks do not overlap.  At most one execution of check_reminders is
\* in progress, and it is the one the loop is waiting in: the loop sleeps,
\* and starts the next tick, only after the tick has finished.
C19_NonOverlappingTicks ==
    /\ ticks_running \in {0, 1}
    /\ ticks_running = 1 <=> task = "tick"

\* a second tick that runs longer than the check interval
C19_Witness ==
    /\ ticks_running = 1
    /\ wake_at > 0
    /\ now - tick.now > Minutes(SCHEDULER_CHECK_INTERVAL)

StopGiven == lifespan \in {"stopping", "down"}

\* C20: cooperative stop.  Once lifespan has stopped the scheduler, the
\* task is no longer sleeping or running the loop: it is cancelled or has
\* finished, no tick is in progress, no tick starts, and shutdown completes
\* only with the task finished.
C20_CooperativeStop ==
    /\ [](StopGiven =>
            /\ task \in {"none", "cancelled", "finished"}
            /\ ticks_running = 0
            /\ lifespan = "down" => task \in {"none", "finished"})
    /\ [][StopGiven => ticks_running' = ticks_running /\ tick' = tick]_vars

\* the loop has exited before the sleep it was in would have ended
C20_Witness ==
    /\ lifespan = "down"
    /\ task = "finished"
    /\ now < wake_at

\* ----------------------------------------------------- generation claims
NoDuplicateSlots ==
    \A i, j \in DOMAIN time_slots :
        (/\ time_slots[i].date = time_slots[j].date
         /\ time_slots[i].start_time = time_slots[j].start_time) => i = j

DatesOfCall(s) == {d \in Dates : s.start_date <= d /\ d <= s.end_date}

\* C16: idempotent generation.  Generation for a date that has slots
\* inserts nothing and returns the rows of that date; a call that met no
\* store failure returns the rows of its dates, so that a second call
\* returns the same set; no two rows have the same date and start time.
C16_IdempotentGeneration ==
    [][\A g \in GenCallers :
          /\ (/\ gen[g].pc = "check_existing"
              /\ gen'[g] # gen[g]
              /\ SlotsByDate(gen[g].current_date) # {}) =>
                  /\ time_slots' = time_slots
                  /\ gen'[g].pc # "slot_loop"
                  /\ gen'[g].slots = gen[g].slots \cup SlotsByDate(gen[g].current_date)
          /\ (gen[g].pc # "done" /\ gen'[g].pc = "done" /\ faults' = 0) =>
                  gen'[g].result = UNION {SlotsByDate(d) : d \in DatesOfCall(gen[g])}
          /\ NoDuplicateSlots']_vars

\* C17: the slots of a date.  With no store failure, generation for a
\* date without slots inserts floor((end - start) / duration) rows, the
\* k-th starting at start + k * duration and ending one duration later,
\* with current_bookings 0 and the default capacity, and returns them.
C17_SlotsOfADate ==
    [][\A g \in GenCallers :
          (/\ gen[g].pc = "slot_loop"
           /\ gen'[g].pc # "slot_loop"
           /\ faults = 0) =>
              LET s == gen[g]
                  d == s.service_duration
                  first == TimeOfDay(WORKING_HOURS_START)
                  n == (TimeOfDay(WORKING_HOURS_END) - first) \div d
              IN  /\ Cardinality(s.daily_slots) = n
                  /\ s.daily_slots = SlotsByDate(s.current_date)
                  /\ s.daily_slots \subseteq gen'[g].slots
                  /\ {time_slots[i] : i \in s.daily_slots} =
                        {[date |-> s.current_date,
                          start_time |-> FormatTime(first + k * d),
                          end_time |-> FormatTime(first + (k + 1) * d),
                          max_capacity |-> MaxAppointmentsPerSlot,
                          current_bookings |-> 0] : k \in 0..(n - 1)}
                  /\ \A i \in s.daily_slots :
                        TimeOfDay(time_slots[i].end_time) <= TimeOfDay(WORKING_HOURS_END)]_vars

\* Scenario B on one date (9 slots of 60 minutes, the last from 17:00 to
\* 18:00), and a date with a dropped trailing step (5 slots of 100 minutes)
C17_Witness ==
    /\ faults = 0
    /\ \A g \in GenCallers : gen[g].pc = "done"
    /\ \E d1, d2 \in Dates :
          /\ Cardinality(SlotsByDate(d1)) = 9
          /\ \E i \in SlotsByDate(d1) :
                time_slots[i].start_time = <<17, 0>> /\ time_slots[i].end_time = <<18, 0>>
          /\ \A i \in SlotsByDate(d1) : time_slots[i].start_time # <<18, 0>>
          /\ Cardinality(SlotsByDate(d2)) = 5
          /\ \E i \in SlotsByDate(d2) :
                time_slots[i].start_time = <<15, 40>> /\ time_slots[i].end_time = <<17, 20>>

\* C18: partial success.  A failed insert leaves the loop of the date
\* going at the next step, and the list a call returns holds rows of the
\* store only, among them every row the call inserted.
C18_PartialSuccess ==
    [][\A g \in GenCallers :
          /\ (gen[g].pc = "slot_loop" /\ faults' > faults) =>
                /\ gen'[g].pc = "slot_loop"
                /\ gen'[g].current_date = gen[g].current_date
                /\ gen'[g].current_time = gen[g].current_time + gen[g].service_duration
                /\ gen'[g].daily_slots = gen[g].daily_slots
          /\ (gen[g].pc # "done" /\ gen'[g].pc = "done") =>
                /\ gen'[g].result \subseteq DOMAIN time_slots'
                /\ (gen[g].base + 1)..Len(time_slots') \subseteq gen'[g].result]_vars

\* a call over two dates whose first insert failed: the later steps of the
\* first date and the second date were generated and returned
C18_Witness ==
    \E g \in GenCallers :
        /\ gen[g].pc = "done"
        /\ gen[g].base = 0
        /\ gen[g].start_date < gen[g].end_date
        /\ faults > 0
        /\ \A i \in SlotsByDate(gen[g].start_date) :
              time_slots[i].start_time # FormatTime(TimeOfDay(WORKING_HOURS_START))
        /\ SlotsByDate(gen[g].start_date) # {}
        /\ Cardinality(SlotsByDate(gen[g].end_date)) =
              (TimeOfDay(WORKING_HOURS_END) - TimeOfDay(WORKING_HOURS_START))
                  \div gen[g].service_duration
        /\ gen[g].result = DOMAIN time_slots

\* --------------------------------------------- booking claims, continued
\* C21: no partial booking is visible.  In every state, also between the
\* steps of a book call, each confirmed appointment of a slot is counted in
\* the slot's current_bookings.  Stated where the claim asks least: one
\* call only has been started and no store request has failed.
C21_NoPartialBooking ==
    (calls = 1 /\ faults = 0) =>
        \A s \in DOMAIN time_slots :
            Cardinality(ConfirmedOn(s)) <= time_slots[s].current_bookings

\* C22: a cancel call whose decrement failed does not end silently.  With a
\* single failed store request in the whole run (so that one retry of the
\* decrement would succeed), a cancel call that marked a confirmed
\* appointment cancelled ends with the unit released or the record
\* flagged, that is not left as plainly cancelled; and a cancel returns true
\* only after its status update and its decrement both succeeded.
C22_DecrementFailureHandled ==
    \A p \in Callers :
        /\ (/\ Finished(p, "cancel")
            /\ calls = 2
            /\ faults = 1
            /\ AllFree
            /\ local[p].appt_status = "confirmed"
            /\ local[p].exit = "decrement_failed") =>
               \/ Slot.current_bookings = Cardinality(ConfirmedOn(SlotId))
               \/ appointments[local[p].appointment].status # "cancelled"
        /\ (Finished(p, "cancel") /\ local[p].result = "True") =>
               local[p].exit = "cancelled"

\* a finished cancel call that found its appointment confirmed and lowered
\* the counter
CancelledConfirmed(p) ==
    /\ Finished(p, "cancel")
    /\ local[p].exit = "cancelled"
    /\ local[p].appt_status = "confirmed"

\* C23: the decrement is atomic.  From a slot with k confirmed appointments
\* and current_bookings = k, without store failure: after two concurrent
\* cancels of two distinct confirmed appointments current_bookings is
\* k - 2, and after a cancel concurrent with a successful book it is k.
C23_AtomicDecrement ==
    \A p, q \in Callers :
        (p # q /\ calls = 2 /\ faults = 0 /\ AllFree) =>
            /\ (/\ CancelledConfirmed(p)
                /\ CancelledConfirmed(q)
                /\ local[p].appointment # local[q].appointment) =>
                   Slot.current_bookings = (next_id - 1) - 2
            /\ (/\ CancelledConfirmed(p)
                /\ Finished(q, "book")
                /\ local[q].exit = "booked") =>
                   Slot.current_bookings = next_id - 2

FailedEarly(loc) ==
    loc.op = "book" /\ loc.exit \in {"not_found", "full", "create_failed"}

\* C24: a book call that fails early changes nothing.  The step that ends
\* a book call because the slot is absent or full or because the insert
\* failed, and the steps of that call before it, leave appointments and
\* time_slots as they were; such a call created no appointment and sent no
\* confirmation email.
C24_FailedBookLeavesStore ==
    [][\A p \in Callers :
          (/\ pc'[p] = "done"
           /\ FailedEarly(local'[p])
           /\ (calls' # calls \/ pc[p] = "b_create")) =>
              /\ time_slots' = time_slots
              /\ appointments' = appointments
              /\ next_id' = next_id
              /\ local'[p].appointment = NoAppointment
              /\ local'[p].email = "none"]_vars

\* one call ended on a failed insert, another on a full slot, and the store
\* holds the one booking that succeeded in between
C24_Witness ==
    /\ \E p \in Callers : Finished(p, "book") /\ local[p].exit = "create_failed"
    /\ \E p \in Callers : Finished(p, "book") /\ local[p].exit = "full"
    /\ faults = 1
    /\ Cardinality(DOMAIN appointments) = 1
    /\ Slot.current_bookings = 1

\* ------------------------------------------- scheduler claims, continued
\* C25: cancelled is terminal.  No step changes the status of an
\* appointment that is cancelled.
C25_CancelledIsTerminal ==
    [][\A a \in DOMAIN appointments :
          (appointments[a].status = "cancelled" /\ a \in DOMAIN appointments') =>
              appointments'[a].status = "cancelled"]_vars

\* if not appointment.get('reminder_sent', False)
StillCandidate(a) == ~appointments[a].reminder_sent

C28_OneSlotPerStart ==
    \A i, j \in DOMAIN time_slots :
        (i < j /\ time_slots[i].date = time_slots[j].date) =>
            time_slots[i].start_time # time_slots[j].start_time


\* C29: slot generation terminates for every integer duration: each
\* iteration of the per-date walk moves current_time forward, so the walk
\* reaches WORKING_HOURS_END.
C29_WalkAdvances ==
    [][\A g \in DOMAIN gen :
          (gen[g].pc = "slot_loop" /\ gen'[g].pc = "slot_loop" /\ gen'[g] # gen[g])
              => gen'[g].current_time > gen[g].current_time]_vars


\* C30: at most one scheduler loop is active at any time: whatever the
\* sequence of start() and stop() calls, at most one loop has run
\* check_reminders since start() was last called.
HasTicked(l) == tick[l] # NoTick

C30_OneActiveLoop == Cardinality({l \in Loops : HasTicked(l)}) <= 1

====
